---------------------------- MODULE Spec2Model ----------------------------
(***************************************************************************)
(* Model of the interrupt-driven I2C master driver                         *)
(* (Badweh_development/modules/i2c/i2c.c) and of its clients               *)
(* (modules/tmphm/tmphm.c, app1/app_main.c).                               *)
(*                                                                         *)
(* Build modelled: Release (DEBUG undefined, hence ENABLE_FAULT_INJECTION  *)
(* undefined, i2c.h:43-45): the fault_inject_* branches are compiled out.  *)
(*                                                                         *)
(* st   struct i2c_state of I2C_INSTANCE_3 (i2c.c:71-87)                   *)
(* hw   the I2C3 peripheral as the driver sees it: CR1.PE, CR1.ACK, the    *)
(*      CR2 interrupt enables, the NVIC pending bits of the two I2C3       *)
(*      interrupt lines, and a log of the START/STOP requests of the       *)
(*      current transaction.  SR1 is not state: the value a handler reads  *)
(*      is an input of the handler (any set of flags).                     *)
(* tmr  the guard timer instance of the tmr service (tmr.c is not part of  *)
(*      the sources; modelled from its use and the specification).         *)
(* gh   history of the current transaction: its age in milliseconds, kept  *)
(*      in the specifications that read it (gh.on).                        *)
(* call the last operation performed, its arguments and return code.       *)
(* holds the clients whose i2c_reserve returned 0 and who have not had     *)
(*      i2c_release return 0 since.                                        *)
(* log  the driver calls a client made in the last step, in order.         *)
(* tm   struct tmphm_state (tmphm.c:69-78), its state field.               *)
(* at   the I2C auto test: test_state and auto_test_active (i2c.c), and    *)
(*      button_was_pressed and test_completed (app_main.c).                *)
(* pc   where the super loop is: "super_loop" between driver calls, or     *)
(*      the name of the accepted i2c_write / i2c_read it is inside of,     *)
(*      past line 342 / 411 and before the guard timer is armed.           *)
(***************************************************************************)
EXTENDS Integers, FiniteSets, Sequences, TLC

VARIABLES st, hw, tmr, gh, call, holds, log, tm, at, pc

vars == <<st, hw, tmr, gh, call, holds, log, tm, at, pc>>

(* What only the clients of the composed system change. *)
clients == <<holds, log, tm, at>>

---------------------------------------------------------------------------
(* Bounds of the model *)

MaxLen == 2

MaxGuardMs == 2

MaxCount == 3

---------------------------------------------------------------------------
(* Program constants *)

MOD_ERR_ARG == -1

MOD_ERR_RESOURCE == -2

MOD_ERR_STATE == -3

MOD_ERR_BAD_INSTANCE == -6

MOD_ERR_PERIPH == -7

MOD_ERR_NOT_RESERVED == -8

MOD_ERR_OP_IN_PROG == -9

I2C_INSTANCE_3 == 0

I2C_NUM_INSTANCES == 1

CONFIG_TMPHM_1_DFLT_I2C_ADDR == 68

STATE_IDLE == "STATE_IDLE"

STATE_MSTR_WR_GEN_START == "STATE_MSTR_WR_GEN_START"

STATE_MSTR_WR_SENDING_ADDR == "STATE_MSTR_WR_SENDING_ADDR"

STATE_MSTR_WR_SENDING_DATA == "STATE_MSTR_WR_SENDING_DATA"

STATE_MSTR_RD_GEN_START == "STATE_MSTR_RD_GEN_START"

STATE_MSTR_RD_SENDING_ADDR == "STATE_MSTR_RD_SENDING_ADDR"

STATE_MSTR_RD_READING_DATA == "STATE_MSTR_RD_READING_DATA"

states ==
    {STATE_IDLE, STATE_MSTR_WR_GEN_START, STATE_MSTR_WR_SENDING_ADDR,
     STATE_MSTR_WR_SENDING_DATA, STATE_MSTR_RD_GEN_START,
     STATE_MSTR_RD_SENDING_ADDR, STATE_MSTR_RD_READING_DATA}

INTER_TYPE_EVT == "INTER_TYPE_EVT"

INTER_TYPE_ERR == "INTER_TYPE_ERR"

I2C_ERR_NONE == "I2C_ERR_NONE"

I2C_ERR_INVALID_INSTANCE == "I2C_ERR_INVALID_INSTANCE"

I2C_ERR_GUARD_TMR == "I2C_ERR_GUARD_TMR"

I2C_ERR_ACK_FAIL == "I2C_ERR_ACK_FAIL"

I2C_ERR_BUS_ERR == "I2C_ERR_BUS_ERR"

I2C_ERR_INTR_UNEXPECT == "I2C_ERR_INTR_UNEXPECT"

I2C_ERR_PEC == "I2C_ERR_PEC"

I2C_ERR_TIMEOUT == "I2C_ERR_TIMEOUT"

(* SR1 status flags: those tested by the handlers; OVR, which stands for   *)
(* the flags of INTERRUPT_ERR_MASK_BASE that the classifier does not test  *)
(* (ARLO, OVR); and the TIMEOUT and PECERR bits of the register.           *)
SR1_FLAGS ==
    {"SB", "ADDR", "TXE", "BTF", "RXNE", "AF", "BERR", "OVR", "TIMEOUT", "PECERR"}

(* The flags that raise the error interrupt. *)
SR1_ERR_FLAGS == {"AF", "BERR", "OVR", "TIMEOUT", "PECERR"}

(* Values of sr1 a handler invocation is driven with: every single flag,   *)
(* no flag, and the combinations the handlers distinguish.                 *)
SR1_VALUES ==
    {{}} \cup {{f} : f \in SR1_FLAGS}
         \cup {{"TXE", "BTF"}, {"AF", "BERR"}, {"SB", "ADDR", "TXE", "BTF", "RXNE"}}

---------------------------------------------------------------------------
(* Callers and arguments *)

InstanceIds == {I2C_INSTANCE_3, I2C_NUM_INSTANCES}

Addrs == {CONFIG_TMPHM_1_DFLT_I2C_ADDR, 127}

Lens == 0..MaxLen

Buffers == {"tmphm.msg_bfr", "autotest.msg_bfr"}

Sat(n) == IF n < MaxCount THEN n + 1 ELSE MaxCount

---------------------------------------------------------------------------
(* Register abstraction *)

DISABLE_ALL_INTERRUPTS(w) == [w EXCEPT !.hw.ITEN = FALSE]

ENABLE_ALL_INTERRUPTS(w) == [w EXCEPT !.hw.ITEN = TRUE]

LL_I2C_Enable(w) == [w EXCEPT !.hw.PE = TRUE]

LL_I2C_Disable(w) == [w EXCEPT !.hw.PE = FALSE]

LL_I2C_GenerateStartCondition(w) == [w EXCEPT !.hw.n_start = Sat(@)]

LL_I2C_GenerateStopCondition(w) == [w EXCEPT !.hw.n_stop = Sat(@)]

(* Faulty variant: the next byte is acknowledged whatever is asked. *)
LL_I2C_AcknowledgeNextData_always(w, ack) == [w EXCEPT !.hw.ACK = TRUE]

LL_I2C_AcknowledgeNextData(w, ack) == [w EXCEPT !.hw.ACK = ack]

(* The data register holds the last byte the driver wrote to it in the     *)
(* transaction: the address byte (from "dest_addr", val the byte) or a     *)
(* byte of the caller's buffer (from "msg_bfr", val its index).  n_store   *)
(* counts the bytes the handler stored into the caller's buffer.           *)
DR_NONE == [from |-> "none", val |-> 0]

(* Faulty variant: the direction bit is always 0. *)
WriteDR_addr_no_dir(w, rd_bit) ==
    [w EXCEPT !.hw.DR = [from |-> "dest_addr",
                         val |-> (w.st.dest_addr * 2) % 256]]

(* st->i2c_reg_base->DR = st->dest_addr << 1, or with the read bit. *)
WriteDR_addr(w, rd_bit) ==
    [w EXCEPT !.hw.DR = [from |-> "dest_addr",
                         val |-> (w.st.dest_addr * 2 + rd_bit) % 256]]

(* Faulty variant: the byte is handed over but not counted. *)
WriteDR_data_uncounted(w) ==
    [w EXCEPT !.hw.DR = [from |-> "msg_bfr", val |-> w.st.msg_bytes_xferred]]

(* st->i2c_reg_base->DR = st->msg_bfr[st->msg_bytes_xferred++] *)
WriteDR_data(w) ==
    [w EXCEPT !.hw.DR = [from |-> "msg_bfr", val |-> w.st.msg_bytes_xferred],
              !.st.msg_bytes_xferred = @ + 1]

(* st->msg_bfr[st->msg_bytes_xferred++] = st->i2c_reg_base->DR *)
ReadDR_data(w) ==
    [w EXCEPT !.hw.n_store = Sat(@),
              !.st.msg_bytes_xferred = @ + 1]

---------------------------------------------------------------------------
(* Guard timer service *)

tmr_inst_start(w, ms) ==
    IF ms = 0
    THEN [w EXCEPT !.tmr = [state |-> "TMR_STOPPED", left |-> 0]]
    ELSE [w EXCEPT !.tmr = [state |-> "TMR_RUNNING", left |-> ms]]


tmr_inst_get_cb(ms, cb_func, cb_user_data) == 0

---------------------------------------------------------------------------
(* Public API of the driver.  w is the record [st, hw, tmr]; every         *)
(* operation yields the record after the call and the value returned.      *)

W == [st |-> st, hw |-> hw, tmr |-> tmr]

Ret(w, rc) == [w |-> w, rc |-> rc]

i2c_get_def_cfg(instance_id, ms) == [transaction_guard_time_ms |-> ms]

i2c_init(instance_id, cfg) ==
    [st  |-> [cfg |-> cfg, guard_tmr_id |-> 0, msg_bfr |-> "NULL",
              msg_len |-> 0, msg_bytes_xferred |-> 0, dest_addr |-> 0,
              reserved |-> FALSE, state |-> STATE_IDLE,
              last_op_error |-> I2C_ERR_NONE],
     hw  |-> [PE |-> FALSE, ITEN |-> FALSE, ACK |-> FALSE,
              n_start |-> 0, n_stop |-> 0,
              DR |-> DR_NONE, n_store |-> 0,
              ev_pend |-> FALSE, er_pend |-> FALSE],
     tmr |-> [state |-> "TMR_UNUSED", left |-> 0]]

i2c_start(w, instance_id) ==
    LET w1 == [w EXCEPT !.st.guard_tmr_id =
                            tmr_inst_get_cb(0, "tmr_callback", instance_id),
                        !.tmr = [state |-> "TMR_STOPPED", left |-> 0]]
    IN  DISABLE_ALL_INTERRUPTS(LL_I2C_Disable(w1))

(* Faulty variant: the reservation is granted without testing the flag. *)
i2c_reserve_unchecked(w, instance_id) ==
    IF instance_id >= I2C_NUM_INSTANCES THEN Ret(w, MOD_ERR_BAD_INSTANCE)
    ELSE Ret([w EXCEPT !.st.reserved = TRUE], 0)

i2c_reserve(w, instance_id) ==
    IF instance_id >= I2C_NUM_INSTANCES THEN Ret(w, MOD_ERR_BAD_INSTANCE)
    ELSE IF w.st.reserved THEN Ret(w, MOD_ERR_RESOURCE)
    ELSE Ret([w EXCEPT !.st.reserved = TRUE], 0)

(* Faulty variant: a release during a transaction also abandons the transaction. *)
i2c_release_resets(w, instance_id) ==
    IF instance_id >= I2C_NUM_INSTANCES THEN Ret(w, MOD_ERR_BAD_INSTANCE)
    ELSE IF ~w.st.reserved THEN Ret(w, MOD_ERR_STATE)
    ELSE Ret([w EXCEPT !.st.reserved = FALSE, !.st.state = STATE_IDLE], 0)

i2c_release(w, instance_id) ==
    IF instance_id >= I2C_NUM_INSTANCES THEN Ret(w, MOD_ERR_BAD_INSTANCE)
    ELSE IF ~w.st.reserved THEN Ret(w, MOD_ERR_STATE)
    ELSE Ret([w EXCEPT !.st.reserved = FALSE], 0)

(* Faulty variant: the guard timer is armed for 1 ms whatever the configuration. *)
op_begin_short_guard(w, first_state, dest_addr, msg_bfr, msg_len) ==
    LET w1 == [w EXCEPT !.st.dest_addr = dest_addr % 65536,
                        !.st.msg_bfr = msg_bfr,
                        !.st.msg_len = msg_len,
                        !.st.msg_bytes_xferred = 0,
                        !.st.last_op_error = I2C_ERR_NONE,
                        !.st.state = first_state,
                        !.hw.n_start = 0,
                        !.hw.n_stop = 0,
                        !.hw.DR = DR_NONE,
                        !.hw.n_store = 0]
        w2 == ENABLE_ALL_INTERRUPTS(
                  LL_I2C_GenerateStartCondition(LL_I2C_Enable(w1)))
    IN  IF w2.st.guard_tmr_id >= 0 THEN tmr_inst_start(w2, 1) ELSE w2

(* Faulty variant: the accepted call does not reset last_op_error. *)
op_begin_keeps_error(w, first_state, dest_addr, msg_bfr, msg_len) ==
    LET w1 == [w EXCEPT !.st.dest_addr = dest_addr % 65536,
                        !.st.msg_bfr = msg_bfr,
                        !.st.msg_len = msg_len,
                        !.st.msg_bytes_xferred = 0,
                        !.st.state = first_state,
                        !.hw.n_start = 0,
                        !.hw.n_stop = 0,
                        !.hw.DR = DR_NONE,
                        !.hw.n_store = 0]
        w2 == ENABLE_ALL_INTERRUPTS(
                  LL_I2C_GenerateStartCondition(LL_I2C_Enable(w1)))
    IN  IF w2.st.guard_tmr_id >= 0
        THEN tmr_inst_start(w2, w2.st.cfg.transaction_guard_time_ms)
        ELSE w2

(* Lines 320-342 of i2c_write and 389-411 of i2c_read: the accepted call   *)
(* up to the enabling of the interrupt sources.  The log of START/STOP     *)
(* requests restarts with the transaction.                                 *)
start_operation(w, first_state, dest_addr, msg_bfr, msg_len) ==
    LET w1 == [w EXCEPT !.st.dest_addr = dest_addr % 65536,
                        !.st.msg_bfr = msg_bfr,
                        !.st.msg_len = msg_len,
                        !.st.msg_bytes_xferred = 0,
                        !.st.last_op_error = I2C_ERR_NONE,
                        !.st.state = first_state,
                        !.hw.n_start = 0,
                        !.hw.n_stop = 0,
                        !.hw.DR = DR_NONE,
                        !.hw.n_store = 0]
    IN  ENABLE_ALL_INTERRUPTS(
            LL_I2C_GenerateStartCondition(LL_I2C_Enable(w1)))

(* Lines 344-354 of i2c_write and 413-423 of i2c_read. *)
arm_guard_tmr(w) ==
    IF w.st.guard_tmr_id >= 0
    THEN tmr_inst_start(w, w.st.cfg.transaction_guard_time_ms)
    ELSE w

(* Lines 320-354 of i2c_write and 389-423 of i2c_read, not preempted. *)
op_begin(w, first_state, dest_addr, msg_bfr, msg_len) ==
    arm_guard_tmr(start_operation(w, first_state, dest_addr, msg_bfr, msg_len))

(* Faulty variant: the write does not test the reservation. *)
i2c_write_unreserved(w, instance_id, dest_addr, msg_bfr, msg_len) ==
    IF instance_id >= I2C_NUM_INSTANCES THEN Ret(w, MOD_ERR_BAD_INSTANCE)
    ELSE IF w.st.state # STATE_IDLE THEN Ret(w, MOD_ERR_STATE)
    ELSE Ret(op_begin(w, STATE_MSTR_WR_GEN_START, dest_addr, msg_bfr, msg_len), 0)

i2c_write(w, instance_id, dest_addr, msg_bfr, msg_len) ==
    IF instance_id >= I2C_NUM_INSTANCES THEN Ret(w, MOD_ERR_BAD_INSTANCE)
    ELSE IF ~w.st.reserved THEN Ret(w, MOD_ERR_NOT_RESERVED)
    ELSE IF w.st.state # STATE_IDLE THEN Ret(w, MOD_ERR_STATE)
    ELSE Ret(op_begin(w, STATE_MSTR_WR_GEN_START, dest_addr, msg_bfr, msg_len), 0)

(* Faulty variant: the read does not test for a transaction in flight. *)
i2c_read_while_busy(w, instance_id, dest_addr, msg_bfr, msg_len) ==
    IF instance_id >= I2C_NUM_INSTANCES THEN Ret(w, MOD_ERR_BAD_INSTANCE)
    ELSE IF ~w.st.reserved THEN Ret(w, MOD_ERR_NOT_RESERVED)
    ELSE Ret(op_begin(w, STATE_MSTR_RD_GEN_START, dest_addr, msg_bfr, msg_len), 0)

i2c_read(w, instance_id, dest_addr, msg_bfr, msg_len) ==
    IF instance_id >= I2C_NUM_INSTANCES THEN Ret(w, MOD_ERR_BAD_INSTANCE)
    ELSE IF ~w.st.reserved THEN Ret(w, MOD_ERR_NOT_RESERVED)
    ELSE IF w.st.state # STATE_IDLE THEN Ret(w, MOD_ERR_STATE)
    ELSE Ret(op_begin(w, STATE_MSTR_RD_GEN_START, dest_addr, msg_bfr, msg_len), 0)

(* Faulty variant: an idle instance reports success whatever the error. *)
i2c_get_op_status_idle_ok(w, instance_id) ==
    IF instance_id >= I2C_NUM_INSTANCES THEN MOD_ERR_BAD_INSTANCE
    ELSE IF w.st.state # STATE_IDLE THEN MOD_ERR_OP_IN_PROG
    ELSE 0

(* Faulty variant: a transaction in flight is reported as finished. *)
i2c_get_op_status_never_busy(w, instance_id) ==
    IF instance_id >= I2C_NUM_INSTANCES THEN MOD_ERR_BAD_INSTANCE
    ELSE IF w.st.last_op_error = I2C_ERR_NONE THEN 0
    ELSE MOD_ERR_PERIPH

i2c_get_op_status(w, instance_id) ==
    IF instance_id >= I2C_NUM_INSTANCES THEN MOD_ERR_BAD_INSTANCE
    ELSE IF w.st.state # STATE_IDLE THEN MOD_ERR_OP_IN_PROG
    ELSE IF w.st.last_op_error = I2C_ERR_NONE THEN 0
    ELSE MOD_ERR_PERIPH

(* Faulty variant: the instance id is not tested. *)
i2c_get_error_unchecked(w, instance_id) == w.st.last_op_error

i2c_get_error(w, instance_id) ==
    IF instance_id >= I2C_NUM_INSTANCES THEN I2C_ERR_INVALID_INSTANCE
    ELSE w.st.last_op_error

(* Faulty variant: the error is recorded but the state is left as it is. *)
op_stop_fail_stays(w, error) ==
    LET w1 == LL_I2C_Disable(
                  LL_I2C_GenerateStopCondition(DISABLE_ALL_INTERRUPTS(w)))
        w2 == IF w1.st.guard_tmr_id >= 0 THEN tmr_inst_start(w1, 0) ELSE w1
    IN  [w2 EXCEPT !.st.last_op_error = error]

(* Faulty variant: the interrupt sources are left enabled. *)
op_stop_fail_keeps_irq(w, error) ==
    LET w1 == LL_I2C_Disable(LL_I2C_GenerateStopCondition(w))
        w2 == IF w1.st.guard_tmr_id >= 0 THEN tmr_inst_start(w1, 0) ELSE w1
    IN  [w2 EXCEPT !.st.last_op_error = error, !.st.state = STATE_IDLE]

op_stop_fail(w, error) ==
    LET w1 == LL_I2C_Disable(
                  LL_I2C_GenerateStopCondition(DISABLE_ALL_INTERRUPTS(w)))
        w2 == IF w1.st.guard_tmr_id >= 0 THEN tmr_inst_start(w1, 0) ELSE w1
    IN  [w2 EXCEPT !.st.last_op_error = error, !.st.state = STATE_IDLE]

---------------------------------------------------------------------------
(* Interrupt handler.  sr1 is the value read from SR1 on entry.  Writing   *)
(* the error flags back to SR1 (line 653) and reading SR2 (lines 539, 589) *)
(* act on status registers only and leave st, hw and tmr as they are.      *)

(* Faulty variant: the finished write leaves the guard timer running. *)
wr_done_keeps_tmr(w) ==
    LET w1 == LL_I2C_Disable(
                  LL_I2C_GenerateStopCondition(DISABLE_ALL_INTERRUPTS(w)))
    IN  [w1 EXCEPT !.st.state = STATE_IDLE, !.st.last_op_error = I2C_ERR_NONE]

(* Lines 557-563: the write is done. *)
wr_done(w) ==
    LET w1 == LL_I2C_Disable(
                  LL_I2C_GenerateStopCondition(DISABLE_ALL_INTERRUPTS(w)))
        w2 == IF w1.st.guard_tmr_id >= 0 THEN tmr_inst_start(w1, 0) ELSE w1
    IN  [w2 EXCEPT !.st.state = STATE_IDLE, !.st.last_op_error = I2C_ERR_NONE]

(* Faulty variant: the finished read requests STOP whatever the length. *)
rd_done_always_stop(w) ==
    LET w1 == LL_I2C_Disable(
                  LL_I2C_GenerateStopCondition(DISABLE_ALL_INTERRUPTS(w)))
        w2 == IF w1.st.guard_tmr_id >= 0 THEN tmr_inst_start(w1, 0) ELSE w1
    IN  [w2 EXCEPT !.st.state = STATE_IDLE, !.st.last_op_error = I2C_ERR_NONE]

(* Faulty variant: the finished read leaves the peripheral enabled. *)
rd_done_keeps_pe(w) ==
    LET w1 == DISABLE_ALL_INTERRUPTS(w)
        w2 == IF w1.st.msg_len > 1 THEN LL_I2C_GenerateStopCondition(w1) ELSE w1
        w4 == IF w2.st.guard_tmr_id >= 0 THEN tmr_inst_start(w2, 0) ELSE w2
    IN  [w4 EXCEPT !.st.state = STATE_IDLE, !.st.last_op_error = I2C_ERR_NONE]

(* Lines 608-616: the read is done. *)
rd_done(w) ==
    LET w1 == DISABLE_ALL_INTERRUPTS(w)
        w2 == IF w1.st.msg_len > 1 THEN LL_I2C_GenerateStopCondition(w1) ELSE w1
        w3 == LL_I2C_Disable(w2)
        w4 == IF w3.st.guard_tmr_id >= 0 THEN tmr_inst_start(w3, 0) ELSE w3
    IN  [w4 EXCEPT !.st.state = STATE_IDLE, !.st.last_op_error = I2C_ERR_NONE]

i2c_interrupt_evt(w, sr1) ==
    CASE w.st.state = STATE_MSTR_WR_GEN_START ->
            IF "SB" \in sr1
            THEN [WriteDR_addr(w, 0) EXCEPT !.st.state = STATE_MSTR_WR_SENDING_ADDR]
            ELSE w
      [] w.st.state = STATE_MSTR_WR_SENDING_ADDR ->
            IF "ADDR" \in sr1
            THEN WriteDR_data([w EXCEPT !.st.state = STATE_MSTR_WR_SENDING_DATA])
            ELSE w
      [] w.st.state = STATE_MSTR_WR_SENDING_DATA ->
            IF sr1 \cap {"TXE", "BTF"} # {}
            THEN IF w.st.msg_bytes_xferred < w.st.msg_len
                 THEN WriteDR_data(w)
                 ELSE IF "BTF" \in sr1 THEN wr_done(w) ELSE w
            ELSE w
      [] w.st.state = STATE_MSTR_RD_GEN_START ->
            IF "SB" \in sr1
            THEN [WriteDR_addr(w, 1) EXCEPT !.st.state = STATE_MSTR_RD_SENDING_ADDR]
            ELSE w
      [] w.st.state = STATE_MSTR_RD_SENDING_ADDR ->
            IF "ADDR" \in sr1
            THEN LET w1 == LL_I2C_AcknowledgeNextData(w, w.st.msg_len # 1)
                     w2 == IF w1.st.msg_len = 1
                           THEN LL_I2C_GenerateStopCondition(w1) ELSE w1
                 IN  [w2 EXCEPT !.st.state = STATE_MSTR_RD_READING_DATA]
            ELSE w
      [] w.st.state = STATE_MSTR_RD_READING_DATA ->
            IF "RXNE" \in sr1
            THEN LET w1 == ReadDR_data(w)
                 IN  IF w1.st.msg_bytes_xferred >= w1.st.msg_len
                     THEN rd_done(w1)
                     ELSE IF w1.st.msg_bytes_xferred = w1.st.msg_len - 1
                          THEN LL_I2C_GenerateStopCondition(
                                   LL_I2C_AcknowledgeNextData(w1, FALSE))
                          ELSE w1
            ELSE w
      [] OTHER -> w

(* Faulty variant: the bus error is tested before the ack failure. *)
i2c_interrupt_err_berr_first(w, sr1) ==
    LET i2c_error == IF "BERR" \in sr1 THEN I2C_ERR_BUS_ERR
                     ELSE IF "AF" \in sr1 THEN I2C_ERR_ACK_FAIL
                     ELSE I2C_ERR_INTR_UNEXPECT
    IN  op_stop_fail(w, i2c_error)

i2c_interrupt_err(w, sr1) ==
    LET i2c_error == IF "AF" \in sr1 THEN I2C_ERR_ACK_FAIL
                     ELSE IF "BERR" \in sr1 THEN I2C_ERR_BUS_ERR
                     ELSE I2C_ERR_INTR_UNEXPECT
    IN  op_stop_fail(w, i2c_error)

(* Faulty variant: an event the state does not handle fails the operation. *)
i2c_interrupt_unexpected(w, instance_id, inter_type, sr1) ==
    IF inter_type = INTER_TYPE_EVT
    THEN IF i2c_interrupt_evt(w, sr1) = w
         THEN op_stop_fail(w, I2C_ERR_INTR_UNEXPECT)
         ELSE i2c_interrupt_evt(w, sr1)
    ELSE IF inter_type = INTER_TYPE_ERR THEN i2c_interrupt_err(w, sr1)
    ELSE w

(* Faulty variant: the write finishes on transmit-buffer-empty as well. *)
i2c_interrupt_txe_done(w, instance_id, inter_type, sr1) ==
    IF inter_type = INTER_TYPE_EVT
    THEN IF /\ w.st.state = STATE_MSTR_WR_SENDING_DATA
            /\ "TXE" \in sr1
            /\ ~(w.st.msg_bytes_xferred < w.st.msg_len)
         THEN wr_done(w)
         ELSE i2c_interrupt_evt(w, sr1)
    ELSE IF inter_type = INTER_TYPE_ERR THEN i2c_interrupt_err(w, sr1)
    ELSE w

i2c_interrupt(w, instance_id, inter_type, sr1) ==
    IF inter_type = INTER_TYPE_EVT THEN i2c_interrupt_evt(w, sr1)
    ELSE IF inter_type = INTER_TYPE_ERR THEN i2c_interrupt_err(w, sr1)
    ELSE w

(* Faulty variant: the callback does not test the state. *)
tmr_callback_unguarded(w, tmr_id, user_data) ==
    op_stop_fail(w, I2C_ERR_GUARD_TMR)

(* Faulty variant: the callback leaves a stalled transaction alone. *)
tmr_callback_ignores(w, tmr_id, user_data) == w

tmr_callback(w, tmr_id, user_data) ==
    LET instance_id == user_data
    IN  IF instance_id >= I2C_NUM_INSTANCES THEN w
        ELSE IF w.st.state # STATE_IDLE THEN op_stop_fail(w, I2C_ERR_GUARD_TMR)
        ELSE w

(* The timer service's pump, for the guard timer: an expired one-shot      *)
(* timer leaves the running state and its callback is invoked once; the    *)
(* callback returns TMR_CB_NONE, so the timer is not restarted.            *)
tmr_run(w) ==
    IF w.tmr.state = "TMR_RUNNING" /\ w.tmr.left = 0
    THEN tmr_callback([w EXCEPT !.tmr.state = "TMR_EXPIRED"],
                      w.st.guard_tmr_id, I2C_INSTANCE_3)
    ELSE w

(* One millisecond of the timer service's tick. *)
tmr_tick(w) ==
    IF w.tmr.state = "TMR_RUNNING" /\ w.tmr.left > 0
    THEN [w EXCEPT !.tmr.left = @ - 1]
    ELSE w

---------------------------------------------------------------------------
(* State after app_main's init and start phases (i2c_get_def_cfg,          *)
(* i2c_init, i2c_start).  The guard time is the configuration's            *)
(* (CONFIG_I2C_DFLT_TRANS_GUARD_TIME_MS, 100 ms), scaled to MaxGuardMs     *)
(* milliseconds.                                                           *)

GuardTimes == {MaxGuardMs}

AgeCap == MaxGuardMs + 1

Call(op, rc) == [op |-> op, rc |-> rc]

tmphm_init == [state |-> STATE_IDLE]

Started(ms) ==
    i2c_start(i2c_init(I2C_INSTANCE_3, i2c_get_def_cfg(I2C_INSTANCE_3, ms)),
              I2C_INSTANCE_3)

InitWith(history) ==
    \E ms \in GuardTimes :
        /\ st = Started(ms).st
        /\ hw = Started(ms).hw
        /\ tmr = Started(ms).tmr
        /\ gh = [on |-> history, age |-> 0]
        /\ call = Call("app_main", 0)
        /\ holds = {}
        /\ log = <<>>
        /\ pc = "super_loop"
        /\ tm = tmphm_init
        /\ at = [test_state |-> 0, auto_test_active |-> FALSE,
                 button_was_pressed |-> FALSE, test_completed |-> FALSE]

Init == InitWith(FALSE)

Apply(w) == st' = w.st /\ hw' = w.hw /\ tmr' = w.tmr

(* History of the transaction, kept when gh.on: the milliseconds since    *)
(* the write or read was accepted.                                         *)
Hist(accepted) ==
    IF gh.on /\ accepted THEN [gh EXCEPT !.age = 0] ELSE gh

---------------------------------------------------------------------------
(* Calls made from the super loop, in any order and with any arguments,    *)
(* whoever the caller is.                                                  *)

Reserve(i) ==
    LET r == i2c_reserve(W, i)
    IN  /\ Apply(r.w)
        /\ call' = Call("i2c_reserve", r.rc)
        /\ UNCHANGED pc
        /\ UNCHANGED <<gh, clients>>

Release(i) ==
    LET r == i2c_release(W, i)
    IN  /\ Apply(r.w)
        /\ call' = Call("i2c_release", r.rc)
        /\ UNCHANGED pc
        /\ UNCHANGED <<gh, clients>>

Write(i, a, b, n) ==
    LET r == i2c_write(W, i, a, b, n)
    IN  /\ Apply(r.w)
        /\ call' = Call("i2c_write", r.rc)
        /\ UNCHANGED pc
        /\ gh' = Hist(r.rc = 0)
        /\ UNCHANGED clients

Read(i, a, b, n) ==
    LET r == i2c_read(W, i, a, b, n)
    IN  /\ Apply(r.w)
        /\ call' = Call("i2c_read", r.rc)
        /\ UNCHANGED pc
        /\ gh' = Hist(r.rc = 0)
        /\ UNCHANGED clients

GetOpStatus(i) ==
    /\ call' = Call("i2c_get_op_status", i2c_get_op_status(W, i))
    /\ UNCHANGED pc
    /\ UNCHANGED <<st, hw, tmr, gh, clients>>

---------------------------------------------------------------------------
(* The peripheral and the NVIC: while the interrupt sources are enabled    *)
(* the peripheral may raise either line at any time; the NVIC latches the  *)
(* request until the handler is entered.                                   *)

RaiseEvt ==
    /\ hw.ITEN /\ hw.PE /\ ~hw.ev_pend
    /\ hw' = [hw EXCEPT !.ev_pend = TRUE]
    /\ call' = Call("raise_evt", 0)
    /\ UNCHANGED pc
    /\ log' = <<>>
    /\ UNCHANGED <<st, tmr, gh, holds, tm, at>>

RaiseErr ==
    /\ hw.ITEN /\ hw.PE /\ ~hw.er_pend
    /\ hw' = [hw EXCEPT !.er_pend = TRUE]
    /\ call' = Call("raise_err", 0)
    /\ UNCHANGED pc
    /\ log' = <<>>
    /\ UNCHANGED <<st, tmr, gh, holds, tm, at>>

I2C3_EV_IRQHandler ==
    /\ hw.ev_pend
    /\ \E sr1 \in SR1_VALUES :
          LET w == i2c_interrupt([W EXCEPT !.hw.ev_pend = FALSE],
                                 I2C_INSTANCE_3, INTER_TYPE_EVT, sr1)
          IN  Apply(w)
    /\ call' = Call("I2C3_EV_IRQHandler", 0)
    /\ UNCHANGED pc
    /\ log' = <<>>
    /\ UNCHANGED <<gh, holds, tm, at>>

I2C3_ER_IRQHandler ==
    /\ hw.er_pend
    /\ \E sr1 \in SR1_VALUES :
          LET w == i2c_interrupt([W EXCEPT !.hw.er_pend = FALSE],
                                 I2C_INSTANCE_3, INTER_TYPE_ERR, sr1)
          IN  Apply(w)
    /\ call' = Call("I2C3_ER_IRQHandler", 0)
    /\ UNCHANGED pc
    /\ log' = <<>>
    /\ UNCHANGED <<gh, holds, tm, at>>

---------------------------------------------------------------------------
(* The timer service: its millisecond tick and its pump in the super loop. *)

Tick ==
    /\ \/ tmr.state = "TMR_RUNNING" /\ tmr.left > 0
       \/ gh.on /\ st.state # STATE_IDLE /\ gh.age < AgeCap
    /\ Apply(tmr_tick(W))
    /\ gh' = [gh EXCEPT !.age = IF gh.on /\ st.state # STATE_IDLE /\ @ < AgeCap
                                THEN @ + 1 ELSE @]
    /\ call' = Call("tick", 0)
    /\ UNCHANGED pc
    /\ log' = <<>>
    /\ UNCHANGED <<holds, tm, at>>

TmrRun ==
    /\ tmr.state = "TMR_RUNNING" /\ tmr.left = 0
    /\ Apply(tmr_run(W))
    /\ call' = Call("tmr_run", 0)
    /\ UNCHANGED pc
    /\ log' = <<>>
    /\ UNCHANGED <<gh, holds, tm, at>>

Next ==
    \/ \E i \in InstanceIds : Reserve(i)
    \/ \E i \in InstanceIds : Release(i)
    \/ \E a \in Addrs, b \in Buffers, n \in Lens : Write(I2C_INSTANCE_3, a, b, n)
    \/ \E a \in Addrs, b \in Buffers, n \in Lens : Read(I2C_INSTANCE_3, a, b, n)
    \/ \E b \in Buffers : Write(I2C_NUM_INSTANCES, CONFIG_TMPHM_1_DFLT_I2C_ADDR, b, MaxLen)
    \/ \E b \in Buffers : Read(I2C_NUM_INSTANCES, CONFIG_TMPHM_1_DFLT_I2C_ADDR, b, MaxLen)
    \/ \E i \in InstanceIds : GetOpStatus(i)
    \/ RaiseEvt
    \/ RaiseErr
    \/ I2C3_EV_IRQHandler
    \/ I2C3_ER_IRQHandler
    \/ Tick
    \/ TmrRun

Spec == Init /\ [][Next]_vars

(* The same system with the scheduling the hardware and the super loop    *)
(* give: the millisecond tick keeps coming and the loop keeps pumping the  *)
(* timer service.                                                          *)
FairSpec == Init /\ [][Next]_vars /\ WF_vars(Tick) /\ WF_vars(TmrRun)

(* The system in which the peripheral never raises an interrupt, with the  *)
(* transaction's age recorded.                                             *)
GuardInit == InitWith(TRUE)

GuardNext ==
    \/ \E i \in InstanceIds : Reserve(i)
    \/ \E i \in InstanceIds : Release(i)
    \/ \E a \in Addrs, b \in Buffers, n \in Lens : Write(I2C_INSTANCE_3, a, b, n)
    \/ \E a \in Addrs, b \in Buffers, n \in Lens : Read(I2C_INSTANCE_3, a, b, n)
    \/ \E i \in InstanceIds : GetOpStatus(i)
    \/ Tick
    \/ TmrRun

GuardSpec ==
    GuardInit /\ [][GuardNext]_vars /\ WF_vars(Tick) /\ WF_vars(TmrRun)

---------------------------------------------------------------------------
(* The driver with preemption.  The I2C interrupts preempt the super loop: *)
(* a pending handler runs before the loop takes its next step, and an      *)
(* accepted i2c_write / i2c_read can be preempted once it has enabled the  *)
(* interrupt sources (line 342 / 411), before it arms the guard timer      *)
(* (lines 344-354 / 413-423).                                              *)

Running == ~hw.ev_pend /\ ~hw.er_pend

InSuperLoop == pc = "super_loop" /\ Running

(* The call up to line 342 / 411 when it is accepted, the whole call when  *)
(* it is refused.                                                          *)
WriteEnter(i, a, b, n) ==
    /\ InSuperLoop
    /\ IF i2c_write(W, i, a, b, n).rc = 0
       THEN /\ Apply(start_operation(W, STATE_MSTR_WR_GEN_START, a, b, n))
            /\ pc' = "i2c_write"
            /\ UNCHANGED <<gh, call, clients>>
       ELSE Write(i, a, b, n)

ReadEnter(i, a, b, n) ==
    /\ InSuperLoop
    /\ IF i2c_read(W, i, a, b, n).rc = 0
       THEN /\ Apply(start_operation(W, STATE_MSTR_RD_GEN_START, a, b, n))
            /\ pc' = "i2c_read"
            /\ UNCHANGED <<gh, call, clients>>
       ELSE Read(i, a, b, n)

(* Lines 344-356 / 413-425: the rest of the accepted call. *)
ArmAndReturn ==
    /\ pc \in {"i2c_write", "i2c_read"}
    /\ Running
    /\ Apply(arm_guard_tmr(W))
    /\ call' = Call(pc, 0)
    /\ pc' = "super_loop"
    /\ UNCHANGED <<gh, clients>>

PreemptNext ==
    \/ \E i \in InstanceIds : InSuperLoop /\ Reserve(i)
    \/ \E i \in InstanceIds : InSuperLoop /\ Release(i)
    \/ \E a \in Addrs, b \in Buffers, n \in Lens :
          WriteEnter(I2C_INSTANCE_3, a, b, n)
    \/ \E a \in Addrs, b \in Buffers, n \in Lens :
          ReadEnter(I2C_INSTANCE_3, a, b, n)
    \/ ArmAndReturn
    \/ \E i \in InstanceIds : InSuperLoop /\ GetOpStatus(i)
    \/ RaiseEvt
    \/ RaiseErr
    \/ I2C3_EV_IRQHandler
    \/ I2C3_ER_IRQHandler
    \/ Tick
    \/ InSuperLoop /\ TmrRun

PreemptSpec == Init /\ [][PreemptNext]_vars

---------------------------------------------------------------------------
(* The composed system of app_main.c.  The clients of the bus are the      *)
(* tmphm sampler, the I2C auto test (started by the button or by the       *)
(* console) and the console's not_reserved test.  A client's calls run     *)
(* against a context: the world, the reservation holders and the log of    *)
(* the calls of this step.                                                 *)

(* enum states of tmphm.c besides STATE_IDLE *)
STATE_RESERVE_I2C == "STATE_RESERVE_I2C"

STATE_WRITE_MEAS_CMD == "STATE_WRITE_MEAS_CMD"

STATE_WAIT_MEAS == "STATE_WAIT_MEAS"

STATE_READ_MEAS_VALUE == "STATE_READ_MEAS_VALUE"

Ctx == [w |-> W, holds |-> holds, log |-> <<>>]

Entry(op, by, x, r) ==
    [op |-> op, by |-> by, rc |-> r.rc,
     holders |-> x.holds, reserved |-> x.w.st.reserved,
     before |-> x.w.st.state, state |-> r.w.st.state, iten |-> r.w.hw.ITEN]

Called(op, by, x, r, h) ==
    [w |-> r.w, holds |-> h, log |-> Append(x.log, Entry(op, by, x, r)),
     rc |-> r.rc]

call_i2c_reserve(x, by, instance_id) ==
    LET r == i2c_reserve(x.w, instance_id)
    IN  Called("i2c_reserve", by, x, r,
               IF r.rc = 0 THEN x.holds \cup {by} ELSE x.holds)

call_i2c_release(x, by, instance_id) ==
    LET r == i2c_release(x.w, instance_id)
    IN  Called("i2c_release", by, x, r,
               IF r.rc = 0 THEN x.holds \ {by} ELSE x.holds)

call_i2c_write(x, by, instance_id, dest_addr, msg_bfr, msg_len) ==
    LET r == i2c_write(x.w, instance_id, dest_addr, msg_bfr, msg_len)
    IN  Called("i2c_write", by, x, r, x.holds)

call_i2c_read(x, by, instance_id, dest_addr, msg_bfr, msg_len) ==
    LET r == i2c_read(x.w, instance_id, dest_addr, msg_bfr, msg_len)
    IN  Called("i2c_read", by, x, r, x.holds)

call_i2c_get_op_status(x, by, instance_id) ==
    LET r == Ret(x.w, i2c_get_op_status(x.w, instance_id))
    IN  Called("i2c_get_op_status", by, x, r, x.holds)

(* Faulty variant: a failed read returns to STATE_IDLE without releasing. *)
tmphm_run_read_fail_keeps(x, t, elapsed) ==
    LET by == "tmphm"
        id == I2C_INSTANCE_3
        addr == CONFIG_TMPHM_1_DFLT_I2C_ADDR
        bfr == "tmphm.msg_bfr"
        to(y, s) == [x |-> y, tm |-> [t EXCEPT !.state = s]]
    IN  CASE t.state = STATE_RESERVE_I2C ->
                LET x1 == call_i2c_reserve(x, by, id)
                    x2 == call_i2c_write(x1, by, id, addr, bfr, 2)
                IN  IF x1.rc = 0
                    THEN IF x2.rc = 0
                         THEN to(x2, STATE_WRITE_MEAS_CMD)
                         ELSE to(call_i2c_release(x2, by, id), STATE_IDLE)
                    ELSE to(x1, STATE_RESERVE_I2C)
          [] t.state = STATE_WRITE_MEAS_CMD ->
                LET x1 == call_i2c_get_op_status(x, by, id)
                IN  IF x1.rc # MOD_ERR_OP_IN_PROG
                    THEN IF x1.rc = 0
                         THEN to(x1, STATE_WAIT_MEAS)
                         ELSE to(call_i2c_release(x1, by, id), STATE_IDLE)
                    ELSE to(x1, STATE_WRITE_MEAS_CMD)
          [] t.state = STATE_WAIT_MEAS ->
                LET x1 == call_i2c_read(x, by, id, addr, bfr, 6)
                IN  IF elapsed
                    THEN IF x1.rc = 0
                         THEN to(x1, STATE_READ_MEAS_VALUE)
                         ELSE to(call_i2c_release(x1, by, id), STATE_IDLE)
                    ELSE to(x, STATE_WAIT_MEAS)
          [] t.state = STATE_READ_MEAS_VALUE ->
                LET x1 == call_i2c_get_op_status(x, by, id)
                IN  IF x1.rc # MOD_ERR_OP_IN_PROG
                    THEN IF x1.rc = 0
                         THEN to(call_i2c_release(x1, by, id), STATE_IDLE)
                         ELSE to(x1, STATE_IDLE)
                    ELSE to(x1, STATE_READ_MEAS_VALUE)
          [] OTHER -> to(x, t.state)

(* tmphm_run: one pass of the sampler's state machine.  elapsed tells      *)
(* whether cfg.meas_time_ms has gone by since the write completed.  The    *)
(* CRC check and the conversion change only the stored measurement; both   *)
(* outcomes release the bus and return to STATE_IDLE.                      *)
tmphm_run(x, t, elapsed) ==
    LET by == "tmphm"
        id == I2C_INSTANCE_3
        addr == CONFIG_TMPHM_1_DFLT_I2C_ADDR
        bfr == "tmphm.msg_bfr"
        to(y, s) == [x |-> y, tm |-> [t EXCEPT !.state = s]]
    IN  CASE t.state = STATE_RESERVE_I2C ->
                LET x1 == call_i2c_reserve(x, by, id)
                    x2 == call_i2c_write(x1, by, id, addr, bfr, 2)
                IN  IF x1.rc = 0
                    THEN IF x2.rc = 0
                         THEN to(x2, STATE_WRITE_MEAS_CMD)
                         ELSE to(call_i2c_release(x2, by, id), STATE_IDLE)
                    ELSE to(x1, STATE_RESERVE_I2C)
          [] t.state = STATE_WRITE_MEAS_CMD ->
                LET x1 == call_i2c_get_op_status(x, by, id)
                IN  IF x1.rc # MOD_ERR_OP_IN_PROG
                    THEN IF x1.rc = 0
                         THEN to(x1, STATE_WAIT_MEAS)
                         ELSE to(call_i2c_release(x1, by, id), STATE_IDLE)
                    ELSE to(x1, STATE_WRITE_MEAS_CMD)
          [] t.state = STATE_WAIT_MEAS ->
                LET x1 == call_i2c_read(x, by, id, addr, bfr, 6)
                IN  IF elapsed
                    THEN IF x1.rc = 0
                         THEN to(x1, STATE_READ_MEAS_VALUE)
                         ELSE to(call_i2c_release(x1, by, id), STATE_IDLE)
                    ELSE to(x, STATE_WAIT_MEAS)
          [] t.state = STATE_READ_MEAS_VALUE ->
                LET x1 == call_i2c_get_op_status(x, by, id)
                IN  IF x1.rc # MOD_ERR_OP_IN_PROG
                    THEN to(call_i2c_release(x1, by, id), STATE_IDLE)
                    ELSE to(x1, STATE_READ_MEAS_VALUE)
          [] OTHER -> to(x, t.state)

(* my_callback: the sampling timer's callback (tmphm.c). *)
my_callback(t) ==
    IF t.state = STATE_IDLE THEN [t EXCEPT !.state = STATE_RESERVE_I2C] ELSE t

(* i2c_run_auto_test: one step of the auto test on its static test_state. *)
i2c_run_auto_test(x, test_state) ==
    LET by == "autotest"
        id == I2C_INSTANCE_3
        bfr == "autotest.msg_bfr"
        ret(y, s, rc) == [x |-> y, test_state |-> s, rc |-> rc]
        start(x1, s) ==
            IF x1.rc # 0
            THEN ret(call_i2c_release(x1, by, id), 0, x1.rc)
            ELSE ret(x1, s, 0)
        wait(s) ==
            LET x1 == call_i2c_get_op_status(x, by, id)
            IN  IF x1.rc = MOD_ERR_OP_IN_PROG THEN ret(x1, test_state, 0)
                ELSE IF x1.rc # 0
                THEN ret(call_i2c_release(x1, by, id), 0, x1.rc)
                ELSE ret(x1, s, 0)
    IN  CASE test_state = 0 ->
                LET x1 == call_i2c_reserve(x, by, id)
                IN  IF x1.rc # 0 THEN ret(x1, 0, x1.rc) ELSE ret(x1, 1, 0)
          [] test_state = 1 ->
                start(call_i2c_write(x, by, id, 68, bfr, 2), 2)
          [] test_state = 2 -> wait(3)
          [] test_state = 3 ->
                start(call_i2c_read(x, by, id, 68, bfr, 6), 4)
          [] test_state = 4 -> wait(5)
          [] test_state = 5 ->
                LET x1 == call_i2c_release(x, by, id)
                IN  IF x1.rc # 0 THEN ret(x1, 5, x1.rc) ELSE ret(x1, 0, 1)
          [] OTHER -> ret(x, 0, 1)

(* i2c_test_not_reserved: the console's synchronous test; it returns 1     *)
(* whether it passed or failed.                                            *)
i2c_test_not_reserved(x) ==
    LET by == "not_reserved"
        id == I2C_INSTANCE_3
        bfr == "test_buffer"
        x1 == call_i2c_write(x, by, id, 68, bfr, 2)
        x2 == call_i2c_read(x1, by, id, 68, bfr, 2)
        x3 == call_i2c_reserve(x2, by, id)
        x4 == call_i2c_write(x3, by, id, 68, bfr, 2)
        x5 == call_i2c_release(x4, by, id)
        ret(y) == [y EXCEPT !.rc = 1]
    IN  IF x1.rc # MOD_ERR_NOT_RESERVED THEN ret(x1)
        ELSE IF x2.rc # MOD_ERR_NOT_RESERVED THEN ret(x2)
        ELSE IF x3.rc # 0 THEN ret(x3)
        ELSE ret(x5)

Commit(x) == Apply(x.w) /\ holds' = x.holds /\ log' = x.log

(* tmr_run in the super loop firing the sampling timer (period            *)
(* cfg.sample_time_ms, far longer than a transaction: any time here).      *)
SampleTimer ==
    /\ tm' = my_callback(tm)
    /\ call' = Call("my_callback", 0)
    /\ UNCHANGED pc
    /\ log' = <<>>
    /\ UNCHANGED <<st, hw, tmr, gh, holds, at>>

TmphmRunAt(elapsed) ==
    LET r == tmphm_run(Ctx, tm, elapsed)
    IN  /\ Commit(r.x)
        /\ tm' = r.tm
        /\ call' = Call("tmphm_run", 0)
        /\ UNCHANGED pc
        /\ UNCHANGED <<gh, at>>

TmphmRun == \E elapsed \in BOOLEAN : TmphmRunAt(elapsed)

(* The button block of the super loop. *)
ButtonPoll ==
    \E button_state \in {0, 1} :
        LET a1 == IF ~at.button_was_pressed
                  THEN [at EXCEPT !.button_was_pressed = TRUE,
                                  !.test_completed = FALSE]
                  ELSE at
            r == i2c_run_auto_test(Ctx, a1.test_state)
        IN  /\ IF button_state > 0
               THEN IF ~a1.test_completed
                    THEN /\ Commit(r.x)
                         /\ at' = [a1 EXCEPT !.test_state = r.test_state,
                                             !.test_completed = (r.rc > 0)]
                    ELSE /\ Commit(Ctx)
                         /\ at' = a1
               ELSE /\ Commit(Ctx)
                    /\ at' = [at EXCEPT !.button_was_pressed = FALSE,
                                        !.test_completed = FALSE]
            /\ call' = Call("button", button_state)
            /\ UNCHANGED pc
            /\ UNCHANGED <<gh, tm>>

(* cmd_i2c_test, "i2c test auto": one call of the auto test. *)
CmdTestAuto ==
    LET r == i2c_run_auto_test(Ctx, at.test_state)
    IN  /\ Commit(r.x)
        /\ at' = [at EXCEPT !.auto_test_active = TRUE,
                            !.test_state = r.test_state]
        /\ call' = Call("i2c test auto", 0)
        /\ UNCHANGED pc
        /\ UNCHANGED <<gh, tm>>

(* cmd_i2c_test, "i2c test not_reserved". *)
CmdTestNotReserved ==
    LET x == i2c_test_not_reserved(Ctx)
    IN  /\ Commit(x)
        /\ call' = Call("i2c test not_reserved", x.rc)
        /\ UNCHANGED pc
        /\ UNCHANGED <<gh, tm, at>>

SysNext ==
    \/ SampleTimer
    \/ TmphmRun
    \/ ButtonPoll
    \/ CmdTestAuto
    \/ CmdTestNotReserved
    \/ RaiseEvt
    \/ RaiseErr
    \/ I2C3_EV_IRQHandler
    \/ I2C3_ER_IRQHandler
    \/ Tick
    \/ TmrRun

SysSpec == Init /\ [][SysNext]_vars

(* The super loop never stops (app_main.c:260-294): tmr_run and tmphm_run  *)
(* are called again and again while the millisecond tick advances, so the  *)
(* measurement time of tmphm eventually elapses; a pending interrupt is    *)
(* served.  The button, the console and the bus traffic are inputs and get *)
(* no fairness.                                                            *)
SysFairness ==
    /\ WF_vars(Tick)
    /\ WF_vars(TmrRun)
    /\ WF_vars(TmphmRunAt(TRUE))
    /\ WF_vars(I2C3_EV_IRQHandler)
    /\ WF_vars(I2C3_ER_IRQHandler)

FairSysSpec == SysSpec /\ SysFairness

---------------------------------------------------------------------------
(* Claims *)

IsStartCall(c) == c.op \in {"i2c_write", "i2c_read"}

LoggedStart(e) == IsStartCall(e)

(* C1: a transaction is started only on a reserved, idle instance: every   *)
(* step that takes state out of STATE_IDLE is an accepted i2c_write or     *)
(* i2c_read, and every accepted i2c_write or i2c_read is made with         *)
(* reserved == true and state == STATE_IDLE.                               *)
C1_StartOnlyReservedIdle ==
    [][ (\/ IsStartCall(call') /\ call'.rc = 0
         \/ st.state = STATE_IDLE /\ st'.state # STATE_IDLE)
        => /\ IsStartCall(call') /\ call'.rc = 0
           /\ st.reserved /\ st.state = STATE_IDLE
           /\ st'.state # STATE_IDLE ]_vars

C1_Witness ==
    /\ call = Call("i2c_write", 0)
    /\ st.state = STATE_MSTR_WR_GEN_START
    /\ st.reserved

(* C2: i2c_write or i2c_read called while reserved == false returns        *)
(* MOD_ERR_NOT_RESERVED and leaves state == STATE_IDLE and the interrupt   *)
(* sources disabled, in every reachable state of the composed system.      *)
C2_NotReservedLeavesIdle ==
    \A k \in DOMAIN log :
        LoggedStart(log[k]) /\ ~log[k].reserved
            => /\ log[k].rc = MOD_ERR_NOT_RESERVED
               /\ log[k].state = STATE_IDLE
               /\ ~log[k].iten

(* C3: i2c_write or i2c_read on a reserved instance with a transaction in  *)
(* flight returns MOD_ERR_STATE and changes nothing: the transaction       *)
(* fields, state, last_op_error, the guard timer and the interrupt enables *)
(* are as before, and nothing records the refused request.                 *)
C3_BusyRejectedNoEffect ==
    [][ (/\ IsStartCall(call') /\ call'.rc # MOD_ERR_BAD_INSTANCE
         /\ st.reserved /\ st.state # STATE_IDLE)
        => /\ call'.rc = MOD_ERR_STATE
           /\ UNCHANGED <<st, hw, tmr>> ]_vars

C3_Witness ==
    /\ call = Call("i2c_read", MOD_ERR_STATE)
    /\ st.state = STATE_MSTR_WR_SENDING_DATA
    /\ st.reserved

(* C4: i2c_reserve on an unreserved instance returns 0 and sets reserved;  *)
(* on a reserved instance (a second call with no release in between) it    *)
(* returns MOD_ERR_RESOURCE and the reservation stays held.                *)
C4_ReserveTwice ==
    [][ (call'.op = "i2c_reserve" /\ call'.rc # MOD_ERR_BAD_INSTANCE)
        => /\ st'.reserved
           /\ call'.rc = IF st.reserved THEN MOD_ERR_RESOURCE ELSE 0 ]_vars

C4_Witness ==
    /\ call = Call("i2c_reserve", MOD_ERR_RESOURCE)
    /\ st.reserved

(* C5: at most one outstanding reservation: in the composed system no two  *)
(* clients have both had i2c_reserve return 0 without a release of their   *)
(* own in between, and the driver's flag is set exactly while one holds.   *)
C5_OneReservation ==
    /\ Cardinality(holds) <= 1
    /\ st.reserved <=> holds # {}

(* The sampler's reserve is refused while the auto test holds the bus. *)
C5_Witness ==
    /\ holds = {"autotest"}
    /\ \E k \in DOMAIN log :
          /\ log[k].op = "i2c_reserve" /\ log[k].by = "tmphm"
          /\ log[k].holders = {"autotest"}
          /\ log[k].rc = MOD_ERR_RESOURCE

(* C6: a write or read by a caller that has not itself reserved the bus    *)
(* returns MOD_ERR_NOT_RESERVED and starts no transaction, also while a    *)
(* different client holds the reservation.                                 *)
C6_NonHolderRejected ==
    \A k \in DOMAIN log :
        LoggedStart(log[k]) /\ log[k].by \notin log[k].holders
            => /\ log[k].rc = MOD_ERR_NOT_RESERVED
               /\ log[k].state = log[k].before

(* C7: i2c_release on an unreserved instance returns MOD_ERR_STATE and     *)
(* changes nothing; otherwise it returns 0 and clears reserved, also with  *)
(* a transaction in flight, and changes nothing else.  i2c_reserve changes *)
(* nothing but reserved.                                                   *)
C7_ReleaseOnlyFlag ==
    [][ /\ (call'.op = "i2c_release" /\ call'.rc # MOD_ERR_BAD_INSTANCE)
           => /\ call'.rc = IF st.reserved THEN 0 ELSE MOD_ERR_STATE
              /\ st' = [st EXCEPT !.reserved = FALSE]
              /\ UNCHANGED <<hw, tmr>>
        /\ call'.op = "i2c_reserve"
           => /\ st' = [st EXCEPT !.reserved = st'.reserved]
              /\ UNCHANGED <<hw, tmr>> ]_vars

C7_Witness ==
    /\ call = Call("i2c_release", 0)
    /\ ~st.reserved
    /\ st.state = STATE_MSTR_RD_READING_DATA
    /\ hw.ITEN
    /\ tmr.state = "TMR_RUNNING"

(* C8: in every state with reserved == true and state == STATE_IDLE,       *)
(* i2c_write and i2c_read with any address, buffer and length return 0 and *)
(* leave last_op_error == I2C_ERR_NONE, the address, buffer and length     *)
(* stored, msg_bytes_xferred == 0, the guard timer running for             *)
(* cfg.transaction_guard_time_ms, state == STATE_MSTR_WR_GEN_START         *)
(* (write) or STATE_MSTR_RD_GEN_START (read), one start condition          *)
(* requested, the peripheral and the interrupt sources enabled.            *)
C8_Accepted(r, first_state, a, b, n) ==
    /\ r.rc = 0
    /\ r.w.st = [st EXCEPT !.last_op_error = I2C_ERR_NONE,
                           !.dest_addr = a, !.msg_bfr = b, !.msg_len = n,
                           !.msg_bytes_xferred = 0, !.state = first_state]
    /\ r.w.tmr = [state |-> "TMR_RUNNING",
                  left |-> st.cfg.transaction_guard_time_ms]
    /\ r.w.hw.n_start = 1
    /\ r.w.hw.n_stop = 0
    /\ r.w.hw.PE
    /\ r.w.hw.ITEN

C8_AcceptedPostcondition ==
    (st.reserved /\ st.state = STATE_IDLE)
    => \A a \in Addrs, b \in Buffers, n \in Lens :
          /\ C8_Accepted(i2c_write(W, I2C_INSTANCE_3, a, b, n),
                         STATE_MSTR_WR_GEN_START, a, b, n)
          /\ C8_Accepted(i2c_read(W, I2C_INSTANCE_3, a, b, n),
                         STATE_MSTR_RD_GEN_START, a, b, n)

C8_Witness ==
    /\ call = Call("i2c_read", 0)
    /\ st.state = STATE_MSTR_RD_GEN_START
    /\ st.msg_len = MaxLen
    /\ st.msg_bytes_xferred = 0
    /\ st.last_op_error = I2C_ERR_NONE
    /\ tmr = [state |-> "TMR_RUNNING", left |-> st.cfg.transaction_guard_time_ms]
    /\ hw.ITEN

(* C9: every accepted transaction returns to STATE_IDLE, whatever          *)
(* interrupts are raised, handled, lost or repeated, as long as the timer  *)
(* service ticks and is pumped.                                            *)
C9_EventuallyIdle == (st.state # STATE_IDLE) ~> (st.state = STATE_IDLE)

C9_Witness ==
    /\ call = Call("tmr_run", 0)
    /\ st.state = STATE_IDLE
    /\ st.last_op_error = I2C_ERR_GUARD_TMR
    /\ st.msg_bytes_xferred = 1
    /\ hw.ev_pend

(* C10: with no interrupt delivered, a transaction leaves its first state  *)
(* only through the guard timer's callback, not before                     *)
(* cfg.transaction_guard_time_ms have passed, to STATE_IDLE with           *)
(* last_op_error == I2C_ERR_GUARD_TMR; the failure cleanup runs once (one  *)
(* stop condition), and this does happen.                                  *)
C10_GuardTimeout ==
    /\ [][ (st.state # STATE_IDLE /\ st'.state # st.state)
           => /\ call'.op = "tmr_run"
              /\ st'.state = STATE_IDLE
              /\ st'.last_op_error = I2C_ERR_GUARD_TMR
              /\ gh.age >= st.cfg.transaction_guard_time_ms
              /\ hw'.n_stop = 1 ]_vars
    /\ [](hw.n_stop <= 1)
    /\ (st.state # STATE_IDLE)
          ~> (st.state = STATE_IDLE /\ st.last_op_error = I2C_ERR_GUARD_TMR
              /\ hw.n_stop = 1)

C10_Witness ==
    /\ call = Call("tmr_run", 0)
    /\ st.state = STATE_IDLE
    /\ st.last_op_error = I2C_ERR_GUARD_TMR
    /\ gh.age = st.cfg.transaction_guard_time_ms
    /\ hw.n_stop = 1
    /\ tmr.state # "TMR_RUNNING"


(* C11: the guard-timer callback firing while state == STATE_IDLE changes   *)
(* nothing: last_op_error is not overwritten, no stop condition is issued, *)
(* the peripheral and the interrupt enables are untouched and the timer    *)
(* is left as the service expired it.                                      *)
C11_CallbackIdleNoOp ==
    [][ (TmrRun /\ st.state = STATE_IDLE)
        => /\ st' = st
           /\ hw' = hw
           /\ tmr' = [tmr EXCEPT !.state = "TMR_EXPIRED"] ]_vars

(* The callback has fired on an idle instance whose transaction had failed *)
(* with another error.                                                     *)
C11_Witness ==
    /\ call = Call("tmr_run", 0)
    /\ tmr.state = "TMR_EXPIRED"
    /\ st.state = STATE_IDLE
    /\ st.last_op_error \notin {I2C_ERR_NONE, I2C_ERR_GUARD_TMR}

(* C12: first-error-wins: an error interrupt handled when its transaction  *)
(* has already ended (state == STATE_IDLE) is a no-op: it does not         *)
(* overwrite last_op_error and does not re-issue a stop condition.         *)
C12_FirstErrorWins ==
    [][ (I2C3_ER_IRQHandler /\ st.state = STATE_IDLE)
        => /\ st' = st
           /\ hw'.n_stop = hw.n_stop ]_vars

(* C13: in every reachable state last_op_error != I2C_ERR_NONE implies     *)
(* state == STATE_IDLE: an error is never visible while a transaction is   *)
(* still active.                                                           *)
C13_ErrorOnlyWhenIdle ==
    st.last_op_error # I2C_ERR_NONE => st.state = STATE_IDLE

(* A caller sees the error of a failed transaction. *)
C13_Witness ==
    /\ call = Call("i2c_get_op_status", MOD_ERR_PERIPH)
    /\ st.last_op_error # I2C_ERR_NONE
    /\ st.state = STATE_IDLE

(* C14: msg_bytes_xferred <= msg_len in every reachable state, for every   *)
(* length a caller may pass to i2c_write or i2c_read, 0 included, and      *)
(* every interrupt sequence.                                               *)
C14_XferredWithinLen ==
    st.msg_bytes_xferred <= st.msg_len

(* A transaction was started and has ended. *)
Completed == st.state = STATE_IDLE /\ hw.n_start > 0

(* C15: for every completed transaction msg_bytes_xferred == msg_len if    *)
(* and only if the outcome is success (last_op_error == I2C_ERR_NONE); on  *)
(* a failure msg_bytes_xferred <= msg_len and last_op_error is set.        *)
C15_XferredIffSuccess ==
    Completed
        => /\ (st.msg_bytes_xferred = st.msg_len)
                <=> (st.last_op_error = I2C_ERR_NONE)
           /\ st.last_op_error # I2C_ERR_NONE
                => st.msg_bytes_xferred <= st.msg_len

(* The error the claimed priority order gives for the flags of sr1. *)
C16_Expected(sr1) ==
    IF "AF" \in sr1 THEN I2C_ERR_ACK_FAIL
    ELSE IF "BERR" \in sr1 THEN I2C_ERR_BUS_ERR
    ELSE IF "TIMEOUT" \in sr1 THEN I2C_ERR_TIMEOUT
    ELSE IF "PECERR" \in sr1 THEN I2C_ERR_PEC
    ELSE I2C_ERR_INTR_UNEXPECT

(* C16: on an error interrupt the recorded error follows the priority      *)
(* ack-failure > bus-error > protocol-timeout > packet-error-code >        *)
(* unexpected, for every combination of set flags.                         *)
C16_ErrorPriority ==
    st.state # STATE_IDLE
        => \A sr1 \in SUBSET SR1_ERR_FLAGS :
              i2c_interrupt(W, I2C_INSTANCE_3, INTER_TYPE_ERR, sr1).st.last_op_error
                  = C16_Expected(sr1)

(* The SR1 values of an error interrupt that carry the ack-failure flag. *)
C17_AckFailValues == {sr1 \in SR1_VALUES \cup SUBSET SR1_ERR_FLAGS : "AF" \in sr1}

(* C17: an ack-failure error interrupt taken in any state of a transaction *)
(* leaves the driver idle with I2C_ERR_ACK_FAIL recorded, one more STOP    *)
(* requested, the guard timer disarmed and the interrupt sources disabled. *)
C17_AckFailure ==
    st.state # STATE_IDLE
        => \A sr1 \in C17_AckFailValues :
              LET r == i2c_interrupt([W EXCEPT !.hw.er_pend = FALSE],
                                     I2C_INSTANCE_3, INTER_TYPE_ERR, sr1)
              IN  /\ r.st.state = STATE_IDLE
                  /\ r.st.last_op_error = I2C_ERR_ACK_FAIL
                  /\ hw.n_stop < MaxCount
                  /\ r.hw.n_stop = hw.n_stop + 1
                  /\ r.tmr.state # "TMR_RUNNING"
                  /\ ~r.hw.ITEN

(* The handler has ended a write in flight on an ack failure. *)
C17_Witness ==
    /\ call = Call("I2C3_ER_IRQHandler", 0)
    /\ st.state = STATE_IDLE
    /\ st.last_op_error = I2C_ERR_ACK_FAIL
    /\ st.msg_bytes_xferred = 1 /\ st.msg_len = 2
    /\ hw.n_stop = 1
    /\ tmr.state = "TMR_STOPPED"
    /\ ~hw.ITEN

(* C18: after a transaction has failed (ack failure, bus error, unexpected *)
(* interrupt or guard timeout) the instance is idle, a STOP has been       *)
(* requested and the interrupt sources are disabled; the holder's          *)
(* i2c_release returns 0, and i2c_reserve followed by any i2c_write or     *)
(* i2c_read is accepted.                                                   *)
C18_RetryAfterFailure ==
    st.last_op_error # I2C_ERR_NONE
        => /\ st.state = STATE_IDLE
           /\ hw.n_stop >= 1
           /\ ~hw.ITEN
           /\ LET rel == i2c_release(W, I2C_INSTANCE_3)
                  res == i2c_reserve(rel.w, I2C_INSTANCE_3)
              IN  /\ st.reserved => rel.rc = 0
                  /\ res.rc = 0
                  /\ \A a \in Addrs, b \in Buffers, n \in Lens :
                        /\ i2c_write(res.w, I2C_INSTANCE_3, a, b, n).rc = 0
                        /\ i2c_read(res.w, I2C_INSTANCE_3, a, b, n).rc = 0

(* The holder has released the instance after a guard timeout. *)
C18_Witness ==
    /\ call = Call("i2c_release", 0)
    /\ st.last_op_error = I2C_ERR_GUARD_TMR
    /\ st.state = STATE_IDLE
    /\ ~st.reserved

(* C20: every event-interrupt step that finishes a transaction (the write  *)
(* on byte-transfer-finished, the read on its last byte) leaves the        *)
(* interrupt sources disabled, the guard timer disarmed, the peripheral    *)
(* disabled, the state idle and last_op_error == I2C_ERR_NONE.             *)
C20_SuccessCleanup ==
    [][ (st.state # STATE_IDLE /\ st'.state = STATE_IDLE /\ I2C3_EV_IRQHandler)
            => /\ ~hw'.ITEN
               /\ tmr'.state = "TMR_STOPPED"
               /\ ~hw'.PE
               /\ st'.last_op_error = I2C_ERR_NONE ]_vars

(* The event handler has finished a write of MaxLen bytes. *)
C20_Witness ==
    /\ call = Call("I2C3_EV_IRQHandler", 0)
    /\ st.state = STATE_IDLE
    /\ st.last_op_error = I2C_ERR_NONE
    /\ st.msg_len = MaxLen /\ st.msg_bytes_xferred = MaxLen
    /\ hw.n_start = 1 /\ hw.n_stop = 1
    /\ ~hw.ITEN /\ ~hw.PE
    /\ tmr.state = "TMR_STOPPED"

(* The event flags and the flags a state waits for; none in STATE_IDLE. *)
C21_EventFlags == {"SB", "ADDR", "TXE", "BTF", "RXNE"}

C21_Expected(state) ==
    CASE state \in {STATE_MSTR_WR_GEN_START, STATE_MSTR_RD_GEN_START} -> {"SB"}
      [] state \in {STATE_MSTR_WR_SENDING_ADDR, STATE_MSTR_RD_SENDING_ADDR} -> {"ADDR"}
      [] state = STATE_MSTR_WR_SENDING_DATA -> {"TXE", "BTF"}
      [] state = STATE_MSTR_RD_READING_DATA -> {"RXNE"}
      [] OTHER -> {}

(* C21: an event interrupt whose SR1 value has none of the flags the       *)
(* current state waits for, or that is taken in STATE_IDLE, changes        *)
(* nothing: the driver state (state, msg_bytes_xferred, last_op_error),    *)
(* the registers (interrupt enables, data register, stores into the        *)
(* caller's buffer) and the guard timer are as before.                     *)
C21_SpuriousEventNoOp ==
    \A sr1 \in SR1_VALUES \cup SUBSET C21_EventFlags :
        sr1 \cap C21_Expected(st.state) = {}
            => i2c_interrupt(W, I2C_INSTANCE_3, INTER_TYPE_EVT, sr1) = W

(* The event handler has run in STATE_MSTR_WR_GEN_START, a state no        *)
(* handler step leads to, and has left the transaction as accepted.        *)
C21_Witness ==
    /\ call = Call("I2C3_EV_IRQHandler", 0)
    /\ st.state = STATE_MSTR_WR_GEN_START
    /\ st.msg_len = MaxLen /\ st.msg_bytes_xferred = 0
    /\ st.last_op_error = I2C_ERR_NONE
    /\ hw.DR = DR_NONE /\ hw.n_start = 1 /\ hw.n_stop = 0
    /\ hw.ITEN /\ hw.PE /\ ~hw.ev_pend
    /\ tmr = [state |-> "TMR_RUNNING", left |-> st.cfg.transaction_guard_time_ms]

(* C22: in a read of one byte, the event step that takes the address      *)
(* acknowledge arms NACK and requests STOP at once, with no byte received  *)
(* yet; the event step that receives the byte finishes the read with       *)
(* I2C_ERR_NONE, msg_bytes_xferred == 1 and no further STOP request.       *)
C22_SingleByteRead ==
    /\ [][ (/\ st.msg_len = 1
            /\ st.state = STATE_MSTR_RD_SENDING_ADDR
            /\ st'.state # st.state
            /\ I2C3_EV_IRQHandler)
              => /\ st'.state = STATE_MSTR_RD_READING_DATA
                 /\ ~hw'.ACK
                 /\ hw.n_stop = 0 /\ hw'.n_stop = 1
                 /\ st'.msg_bytes_xferred = 0 /\ hw'.n_store = 0 ]_vars
    /\ [][ (/\ st.msg_len = 1
            /\ st.state = STATE_MSTR_RD_READING_DATA
            /\ st' # st
            /\ I2C3_EV_IRQHandler)
              => /\ st'.state = STATE_IDLE
                 /\ st'.last_op_error = I2C_ERR_NONE
                 /\ st'.msg_bytes_xferred = 1 /\ hw'.n_store = 1
                 /\ hw'.n_stop = hw.n_stop /\ hw'.n_stop = 1 ]_vars

(* A read of one byte has finished in the event handler. *)
C22_Witness ==
    /\ call = Call("I2C3_EV_IRQHandler", 0)
    /\ st.state = STATE_IDLE
    /\ st.last_op_error = I2C_ERR_NONE
    /\ st.msg_len = 1 /\ st.msg_bytes_xferred = 1
    /\ hw.n_store = 1 /\ hw.n_stop = 1 /\ ~hw.ACK
    /\ hw.DR = [from |-> "dest_addr",
                val |-> (CONFIG_TMPHM_1_DFLT_I2C_ADDR * 2 + 1) % 256]

(* The command the auto test and the sampler write: 0x2C, 0x06. *)
C23_Buffer == <<44, 6>>

(* A write of the two-byte command to address 0x44 is in flight or done. *)
C23_Write ==
    /\ st.msg_len = 2
    /\ st.dest_addr = CONFIG_TMPHM_1_DFLT_I2C_ADDR
    /\ st.state \in {STATE_MSTR_WR_GEN_START, STATE_MSTR_WR_SENDING_ADDR,
                      STATE_MSTR_WR_SENDING_DATA}

(* C23: in a write of [0x2C, 0x06] with length 2, every event step that    *)
(* hands a data byte to the data register hands over exactly the next      *)
(* byte (0x2C first, 0x06 second) and ends in STATE_MSTR_WR_SENDING_DATA;  *)
(* the transaction finishes only after the second byte, and then exactly   *)
(* on an event with byte-transfer-finished set.                            *)
C23_TwoByteWrite ==
    /\ [][ (C23_Write /\ hw'.DR # hw.DR /\ hw'.DR.from = "msg_bfr"
               /\ I2C3_EV_IRQHandler)
              => /\ st'.state = STATE_MSTR_WR_SENDING_DATA
                 /\ hw'.DR.val = st.msg_bytes_xferred
                 /\ st'.msg_bytes_xferred = st.msg_bytes_xferred + 1
                 /\ st.msg_bytes_xferred < 2
                 /\ C23_Buffer[hw'.DR.val + 1]
                        = IF st.msg_bytes_xferred = 0 THEN 44 ELSE 6 ]_vars
    /\ [][ (C23_Write /\ st'.state = STATE_IDLE /\ I2C3_EV_IRQHandler)
              => /\ st.state = STATE_MSTR_WR_SENDING_DATA
                 /\ st.msg_bytes_xferred = 2
                 /\ st'.msg_bytes_xferred = 2
                 /\ hw.DR = [from |-> "msg_bfr", val |-> 1]
                 /\ hw'.DR = hw.DR
                 /\ st'.last_op_error = I2C_ERR_NONE ]_vars
    /\ [](C23_Write =>
            \A sr1 \in SR1_VALUES \cup SUBSET C21_EventFlags :
               i2c_interrupt(W, I2C_INSTANCE_3, INTER_TYPE_EVT, sr1).st.state
                     = STATE_IDLE
                 <=> /\ "BTF" \in sr1
                     /\ st.state = STATE_MSTR_WR_SENDING_DATA
                     /\ st.msg_bytes_xferred = 2)

(* The two-byte write from the auto test's buffer has finished. *)
C23_Witness ==
    /\ call = Call("I2C3_EV_IRQHandler", 0)
    /\ st.state = STATE_IDLE
    /\ st.last_op_error = I2C_ERR_NONE
    /\ st.msg_bfr = "autotest.msg_bfr"
    /\ st.dest_addr = CONFIG_TMPHM_1_DFLT_I2C_ADDR
    /\ st.msg_len = 2 /\ st.msg_bytes_xferred = 2
    /\ hw.DR = [from |-> "msg_bfr", val |-> 1]
    /\ hw.n_stop = 1

(* C24: i2c_get_op_status returns MOD_ERR_OP_IN_PROG exactly when          *)
(* state != STATE_IDLE; in STATE_IDLE it returns 0 exactly when            *)
(* last_op_error == I2C_ERR_NONE and a failure code otherwise; the call    *)
(* is a single step that leaves the driver, the registers and the guard    *)
(* timer as they were.                                                     *)
C24_OpStatus ==
    /\ [](LET rc == i2c_get_op_status(W, I2C_INSTANCE_3)
          IN  /\ rc = MOD_ERR_OP_IN_PROG <=> st.state # STATE_IDLE
              /\ st.state = STATE_IDLE
                    => /\ rc = 0 <=> st.last_op_error = I2C_ERR_NONE
                       /\ st.last_op_error # I2C_ERR_NONE
                             => rc < 0 /\ rc # MOD_ERR_OP_IN_PROG)
    /\ [][ (GetOpStatus(I2C_INSTANCE_3))
              => /\ st' = st /\ hw' = hw /\ tmr' = tmr
                 /\ call' = Call("i2c_get_op_status",
                                 i2c_get_op_status(W, I2C_INSTANCE_3)) ]_vars

(* The status was polled while a transaction was in flight. *)
C24_Witness ==
    /\ call = Call("i2c_get_op_status", MOD_ERR_OP_IN_PROG)
    /\ st.state = STATE_MSTR_RD_READING_DATA
    /\ st.last_op_error = I2C_ERR_NONE

(* C25: once a transaction has ended, the value i2c_get_error returns      *)
(* stays the same until a new i2c_write or i2c_read is accepted, and that  *)
(* step makes it I2C_ERR_NONE.                                             *)
C25_StickyError ==
    [][ (/\ st.state = STATE_IDLE
         /\ i2c_get_error([W EXCEPT !.st = st'], I2C_INSTANCE_3)
               # i2c_get_error(W, I2C_INSTANCE_3))
           => /\ call'.op \in {"i2c_write", "i2c_read"}
              /\ call'.rc = 0
              /\ st'.state # STATE_IDLE
              /\ st'.last_op_error = I2C_ERR_NONE ]_vars

(* The driver calls of a pass of tmphm_run, as operation and whether it    *)
(* returned 0.                                                             *)
C26_Pass(l) == [i \in 1..Len(l) |-> <<l[i].op, l[i].rc = 0>>]

(* A transaction the sampler started is in flight: the driver works on the *)
(* sampler's buffer.                                                       *)
C26_OwnOpInFlight(state) ==
    state # STATE_IDLE /\ st.msg_bfr = "tmphm.msg_bfr"

C27_InvalidIds == {I2C_NUM_INSTANCES, I2C_NUM_INSTANCES + 1, 255}

(* C27: with an instance id >= I2C_NUM_INSTANCES, i2c_reserve,             *)
(* i2c_release, i2c_write, i2c_read and i2c_get_op_status return           *)
(* MOD_ERR_BAD_INSTANCE, i2c_get_error returns I2C_ERR_INVALID_INSTANCE,   *)
(* and the driver, the registers and the guard timer are left untouched.   *)
C27_InvalidInstance ==
    \A i \in C27_InvalidIds :
        /\ i2c_reserve(W, i) = Ret(W, MOD_ERR_BAD_INSTANCE)
        /\ i2c_release(W, i) = Ret(W, MOD_ERR_BAD_INSTANCE)
        /\ \A a \in Addrs, b \in Buffers, n \in Lens :
              /\ i2c_write(W, i, a, b, n) = Ret(W, MOD_ERR_BAD_INSTANCE)
              /\ i2c_read(W, i, a, b, n) = Ret(W, MOD_ERR_BAD_INSTANCE)
        /\ i2c_get_op_status(W, i) = MOD_ERR_BAD_INSTANCE
        /\ i2c_get_error(W, i) = I2C_ERR_INVALID_INSTANCE

(* A write that names no instance was rejected on a reserved, idle bus     *)
(* whose last transaction had failed.                                      *)
C27_Witness ==
    /\ call = Call("i2c_write", MOD_ERR_BAD_INSTANCE)
    /\ st.reserved
    /\ st.state = STATE_IDLE
    /\ st.last_op_error = I2C_ERR_ACK_FAIL

(* C28: i2c_get_op_status returns MOD_ERR_OP_IN_PROG while a transaction   *)
(* is in flight, 0 when the finished one succeeded and -1 when it failed.  *)
C28_StatusMinusOne ==
    i2c_get_op_status(W, I2C_INSTANCE_3)
        = IF st.state # STATE_IDLE THEN MOD_ERR_OP_IN_PROG
          ELSE IF st.last_op_error = I2C_ERR_NONE THEN 0
          ELSE -1

(* C29: in a write of length 0, the event step that takes the address      *)
(* acknowledge in STATE_MSTR_WR_SENDING_ADDR finishes the transaction with *)
(* I2C_ERR_NONE, hands no byte of the caller's buffer to the data register *)
(* and counts none.                                                        *)
C29_ZeroLengthWrite ==
    [][ (/\ st.msg_len = 0
         /\ st.state = STATE_MSTR_WR_SENDING_ADDR
         /\ st' # st
         /\ I2C3_EV_IRQHandler)
           => /\ st'.state = STATE_IDLE
              /\ st'.last_op_error = I2C_ERR_NONE
              /\ hw'.DR = hw.DR
              /\ st'.msg_bytes_xferred = 0 ]_vars

(* C30: in STATE_MSTR_WR_SENDING_DATA with every byte handed over, an      *)
(* event with byte-transfer-finished set finishes the write (one STOP      *)
(* request, STATE_IDLE, I2C_ERR_NONE); an event without it, transmit-      *)
(* buffer-empty alone included, changes nothing: the state stays, no byte  *)
(* goes to the data register and no STOP is requested.                     *)
C30_FinishOnlyOnBTF ==
    (st.state = STATE_MSTR_WR_SENDING_DATA
       /\ ~(st.msg_bytes_xferred < st.msg_len))
        => \A sr1 \in SR1_VALUES \cup SUBSET C21_EventFlags :
              LET r == i2c_interrupt(W, I2C_INSTANCE_3, INTER_TYPE_EVT, sr1)
              IN  IF "BTF" \in sr1
                  THEN /\ r.st.state = STATE_IDLE
                       /\ r.st.last_op_error = I2C_ERR_NONE
                       /\ r.hw.n_stop = hw.n_stop + 1
                       /\ r.hw.DR = hw.DR
                       /\ r.st.msg_bytes_xferred = st.msg_bytes_xferred
                  ELSE r = W

(* A write of one byte has finished: the byte was handed over at the       *)
(* address acknowledge, so the only step taken in                          *)
(* STATE_MSTR_WR_SENDING_DATA is the finishing one.                        *)
C30_Witness ==
    /\ call = Call("I2C3_EV_IRQHandler", 0)
    /\ st.state = STATE_IDLE
    /\ st.last_op_error = I2C_ERR_NONE
    /\ st.msg_len = 1 /\ st.msg_bytes_xferred = 1
    /\ hw.DR = [from |-> "msg_bfr", val |-> 0]
    /\ hw.n_stop = 1 /\ hw.n_store = 0

(* C31: in a read of n >= 1 bytes the acknowledge mode follows the count:  *)
(* the address step arms ACK when n >= 2 (NACK when n = 1), while bytes    *)
(* are awaited ACK is armed exactly when fewer than n-1 are in, and so the *)
(* k-th byte is received with ACK armed exactly when k < n: bytes 1..n-1   *)
(* are acknowledged and the last one is not.                               *)
C31_AckMode ==
    /\ [](st.state = STATE_MSTR_RD_READING_DATA /\ st.msg_len >= 1
            => (hw.ACK <=> st.msg_bytes_xferred < st.msg_len - 1))
    /\ [][ (/\ st.state = STATE_MSTR_RD_SENDING_ADDR
            /\ st'.state = STATE_MSTR_RD_READING_DATA
            /\ st.msg_len >= 1
            /\ I2C3_EV_IRQHandler)
              => (hw'.ACK <=> st.msg_len >= 2) ]_vars
    /\ [][ (/\ st.state = STATE_MSTR_RD_READING_DATA
            /\ st.msg_len >= 1
            /\ hw'.n_store # hw.n_store
            /\ I2C3_EV_IRQHandler)
              => /\ st'.msg_bytes_xferred = st.msg_bytes_xferred + 1
                 /\ hw.ACK <=> st'.msg_bytes_xferred < st.msg_len
                 /\ st'.msg_bytes_xferred = st.msg_len - 1 => ~hw'.ACK ]_vars

(* The first byte of a two-byte read is in: it was acknowledged, and NACK  *)
(* is now armed for the last one.                                          *)
C31_Witness ==
    /\ call = Call("I2C3_EV_IRQHandler", 0)
    /\ st.state = STATE_MSTR_RD_READING_DATA
    /\ st.msg_len = 2 /\ st.msg_bytes_xferred = 1
    /\ hw.n_store = 1
    /\ ~hw.ACK
    /\ ~hw.ev_pend /\ ~hw.er_pend

(* The states of a write and of a read transaction. *)
C32_WriteStates ==
    {STATE_MSTR_WR_GEN_START, STATE_MSTR_WR_SENDING_ADDR, STATE_MSTR_WR_SENDING_DATA}

C32_ReadStates ==
    {STATE_MSTR_RD_GEN_START, STATE_MSTR_RD_SENDING_ADDR, STATE_MSTR_RD_READING_DATA}

(* The event handler applied with start-sent set, the transaction being    *)
(* one to the 7-bit address addr.                                          *)
C32_OnStart(addr) ==
    i2c_interrupt([W EXCEPT !.st.dest_addr = addr],
                  I2C_INSTANCE_3, INTER_TYPE_EVT, {"SB"})

(* C32: on start-sent the byte written to the data register is 2*addr      *)
(* (bit 0 clear) in STATE_MSTR_WR_GEN_START and 2*addr + 1 (bit 0 set) in  *)
(* STATE_MSTR_RD_GEN_START, for every addr in 0..127, and the state moves  *)
(* to the *_SENDING_ADDR state of the same direction; a transaction that   *)
(* starts as a write stays in write states until idle, one that starts as  *)
(* a read stays in read states.                                            *)
C32_AddressByte ==
    /\ [](st.state = STATE_MSTR_WR_GEN_START
            => \A addr \in 0..127 :
                  /\ C32_OnStart(addr).hw.DR = [from |-> "dest_addr", val |-> 2 * addr]
                  /\ C32_OnStart(addr).hw.DR.val % 2 = 0
                  /\ C32_OnStart(addr).st.state = STATE_MSTR_WR_SENDING_ADDR)
    /\ [](st.state = STATE_MSTR_RD_GEN_START
            => \A addr \in 0..127 :
                  /\ C32_OnStart(addr).hw.DR
                        = [from |-> "dest_addr", val |-> 2 * addr + 1]
                  /\ C32_OnStart(addr).hw.DR.val % 2 = 1
                  /\ C32_OnStart(addr).st.state = STATE_MSTR_RD_SENDING_ADDR)
    /\ [][ /\ st.state \in C32_WriteStates
                => st'.state \in C32_WriteStates \cup {STATE_IDLE}
           /\ st.state \in C32_ReadStates
                => st'.state \in C32_ReadStates \cup {STATE_IDLE}
           /\ (st.state = STATE_IDLE /\ st'.state # STATE_IDLE)
                => st'.state \in {STATE_MSTR_WR_GEN_START, STATE_MSTR_RD_GEN_START}
         ]_vars

(* A read from address 127: the address byte 255 is in the data register. *)
C32_Witness ==
    /\ call = Call("I2C3_EV_IRQHandler", 0)
    /\ st.state = STATE_MSTR_RD_SENDING_ADDR
    /\ st.dest_addr = 127
    /\ hw.DR = [from |-> "dest_addr", val |-> 255]

C34_DataInOrder ==
    [][ /\ (hw'.DR # hw.DR /\ hw'.DR.from = "msg_bfr")
             => /\ hw'.DR.val = st.msg_bytes_xferred
                /\ st'.msg_bytes_xferred = st.msg_bytes_xferred + 1
                /\ hw'.DR.val < st.msg_len
        /\ hw'.n_store > hw.n_store
             => /\ hw'.n_store = hw.n_store + 1
                /\ st'.msg_bytes_xferred = st.msg_bytes_xferred + 1
                /\ st.msg_bytes_xferred < st.msg_len ]_vars

(* C35: between the steps of the driver the enables follow the state: the  *)
(* interrupt sources are enabled exactly when state != STATE_IDLE, and so  *)
(* is the peripheral.                                                      *)
C35_EnablesTrackState ==
    /\ hw.ITEN <=> st.state # STATE_IDLE
    /\ hw.PE <=> st.state # STATE_IDLE

(* i2c_write has returned 0 although an error interrupt ended the          *)
(* transaction before the call returned: the instance is idle with both    *)
(* enables off.                                                            *)
C35_Witness ==
    /\ call = Call("i2c_write", 0)
    /\ pc = "super_loop"
    /\ st.state = STATE_IDLE
    /\ st.last_op_error # I2C_ERR_NONE
    /\ ~hw.ITEN /\ ~hw.PE

(* C36: in the composed system the bus is released only when the driver is *)
(* idle (reserved = FALSE implies state = STATE_IDLE), and an i2c_write    *)
(* that directly follows the caller's own successful i2c_reserve is never  *)
(* rejected with MOD_ERR_STATE.                                            *)
C36_ReleasedImpliesIdle == ~st.reserved => st.state = STATE_IDLE

C36_FirstWriteAccepted ==
    \A i \in 1..(Len(log) - 1) :
        (/\ log[i].op = "i2c_reserve" /\ log[i].rc = 0
         /\ log[i + 1].op = "i2c_write" /\ log[i + 1].by = log[i].by)
            => log[i + 1].rc # MOD_ERR_STATE

C36_ReleaseAfterTerminal ==
    C36_ReleasedImpliesIdle /\ C36_FirstWriteAccepted

(* C37: once the auto test has reserved the bus (test_state != 0) it is    *)
(* eventually back at its first step with the reservation given up.        *)
C37_AutoTestReleases == (at.test_state # 0) ~> (at.test_state = 0)

(* C38: tmphm holds the reservation exactly in STATE_WRITE_MEAS_CMD,       *)
(* STATE_WAIT_MEAS and STATE_READ_MEAS_VALUE; every call of tmphm_run that *)
(* returns it to STATE_IDLE makes exactly one i2c_release call; and every  *)
(* i2c_release of tmphm is made while tmphm holds the reservation and      *)
(* succeeds.                                                               *)
C38_HoldingStates ==
    {STATE_WRITE_MEAS_CMD, STATE_WAIT_MEAS, STATE_READ_MEAS_VALUE}

C38_Releases(l) ==
    {i \in 1..Len(l) : l[i].op = "i2c_release" /\ l[i].by = "tmphm"}

C38_TmphmHolds ==
    /\ [](/\ ("tmphm" \in holds) <=> (tm.state \in C38_HoldingStates)
          /\ ("tmphm" \in holds) => st.reserved)
    /\ [][ TmphmRun =>
             /\ (tm.state # STATE_IDLE /\ tm'.state = STATE_IDLE)
                    => Cardinality(C38_Releases(log')) = 1
             /\ \A i \in C38_Releases(log') :
                    /\ "tmphm" \in log'[i].holders
                    /\ log'[i].reserved
                    /\ log'[i].rc = 0 ]_vars

(* tmphm_run has just released after a failed read. *)
C38_Witness ==
    /\ call = Call("tmphm_run", 0)
    /\ tm.state = STATE_IDLE
    /\ Len(log) = 2
    /\ log[1].op = "i2c_get_op_status" /\ log[1].rc # 0
    /\ log[1].before = STATE_IDLE
    /\ log[2].op = "i2c_release" /\ log[2].rc = 0
    /\ st.last_op_error # I2C_ERR_NONE
    /\ hw.ACK
    /\ ~st.reserved

(* C39: a measurement cycle terminates: once tmphm has started its write   *)
(* (STATE_WRITE_MEAS_CMD) it eventually is back in STATE_IDLE with the bus *)
(* released.                                                               *)
C39_CycleTerminates ==
    (tm.state = STATE_WRITE_MEAS_CMD)
        ~> (tm.state = STATE_IDLE /\ ~st.reserved /\ "tmphm" \notin holds)

(* C40: in every state of the composed system, a call of                  *)
(* i2c_run_auto_test returns 1 only from its release step, with the bus    *)
(* released and test_state back at 0; a return of 0 leaves the test in      *)
(* one of its steps 1..5; a negative return leaves test_state = 0 and no    *)
(* reservation of the auto test.  The release step is entered only from    *)
(* the read wait on status 0, the read wait only from a started read, the  *)
(* read step only from the write wait on status 0, and that status is the  *)
(* status of the test's own write or read.                                 *)
C40_Outcome ==
    LET r == i2c_run_auto_test(Ctx, at.test_state)
    IN  /\ r.rc \in {0, 1} \cup {MOD_ERR_ARG, MOD_ERR_RESOURCE, MOD_ERR_STATE,
                                 MOD_ERR_BAD_INSTANCE, MOD_ERR_PERIPH,
                                 MOD_ERR_NOT_RESERVED}
        /\ r.rc = 1 => /\ at.test_state = 5
                       /\ r.test_state = 0
                       /\ ~r.x.w.st.reserved
                       /\ "autotest" \notin r.x.holds
        /\ r.rc = 0 => r.test_state \in 1..5
        /\ r.rc < 0 => /\ r.test_state = 0
                       /\ "autotest" \notin r.x.holds
                       /\ "autotest" \in holds => ~r.x.w.st.reserved

C40_Steps ==
    /\ at'.test_state \in {0, at.test_state, at.test_state + 1}
    /\ at'.test_state # at.test_state /\ at'.test_state \in {3, 5}
            => /\ log'[Len(log')].op = "i2c_get_op_status"
               /\ log'[Len(log')].rc = 0
               /\ log'[Len(log')].before = STATE_IDLE
    /\ at'.test_state # at.test_state /\ at'.test_state \in {2, 4}
            => /\ log'[Len(log')].op = IF at'.test_state = 2 THEN "i2c_write"
                                                              ELSE "i2c_read"
               /\ log'[Len(log')].rc = 0
    /\ at.test_state # 0 => "autotest" \in holds

(* The status 0 that lets the test leave a wait step is the status of the  *)
(* test's own transaction, transferred in full.                            *)
C40_OwnOperation ==
    at'.test_state # at.test_state /\ at'.test_state \in {3, 5}
        => /\ st.msg_bfr = "autotest.msg_bfr"
           /\ st.msg_len = (IF at'.test_state = 3 THEN 2 ELSE 6)
           /\ st.msg_bytes_xferred = st.msg_len

C40_AutoTestResult ==
    [](C40_Outcome) /\ [][C40_Steps /\ C40_OwnOperation]_vars

(* C19: the guard timer is disarmed on every terminal transition: with     *)
(* interrupts able to preempt an accepted i2c_write / i2c_read once the    *)
(* interrupt sources are enabled, whenever state == STATE_IDLE and no      *)
(* driver call is mid-execution the guard timer is not armed.              *)
C19_IdleDisarmed ==
    (st.state = STATE_IDLE /\ pc = "super_loop") => tmr.state # "TMR_RUNNING"

=============================================================================
